---- MODULE Spec2Model ----
(***************************************************************************)
(* A model of wikimedia_downloader.py: the CLI entry point (main), the     *)
(* batch orchestrator (process_images), the file downloader                *)
(* (download_file) and the report written at the end of a run.             *)
(*                                                                         *)
(* Strings are sequences of one-character strings, so that str.replace and *)
(* str.strip and int() are computed the way Python computes them.          *)
(* The filesystem is a function from paths to file contents; a path is the *)
(* tuple of its components.                                                *)
(***************************************************************************)
EXTENDS Integers, Sequences, FiniteSets, TLC

VARIABLES
    pc,             \* position in the program
    search_term,    \* main / process_images: the search term
    count_input,    \* main: the raw text typed at the count prompt
    max_images,     \* main / process_images: the cap
    download_dir,   \* process_images: the download directory
    results,        \* process_images: what search_wikimedia returned
    idx,            \* process_images: 1-based position of the for loop
    downloaded,     \* process_images: the DownloadRecords collected
    filepath,       \* process_images: destination of the current candidate
    dl_ok,          \* what download_file returned for the current candidate
    outcome,        \* terminal state of the candidate examined last
    slept,          \* whether time.sleep(1) ran after that candidate
    fs,             \* the filesystem: path -> contents
    dirs,           \* the directories that exist
    report_written, \* whether this run wrote download_report.md
    ret,            \* what process_images returned
    run,            \* number of process_images calls started
    prev_term,      \* the search term of the previous call
    other_term,     \* a second search term (directory derivation only)
    other_dir       \* the directory derived from other_term

vars == <<pc, search_term, count_input, max_images, download_dir, results, idx,
          downloaded, filepath, dl_ok, outcome, slept, fs, dirs,
          report_written, ret, run, prev_term, other_term, other_dir>>

None == "None"

\* ------------------------------------------------------------------ bounds
MaxTermLen == 3
MaxInputLen == 3
MaxResults == 3
MaxResultsTwice == 1
MaxImages == 3

\* ----------------------------------------------------------------- strings
TermChars == {"a", " ", "_"}
InputChars == {"-", "0", "1", "5", "x"}

SeqsUpTo(S, n) == UNION {[1..k -> S] : k \in 0..n}

\* s[i..i+Len(old)-1] = old
MatchAt(s, old, i) ==
    /\ i + Len(old) - 1 <= Len(s)
    /\ \A k \in 1..Len(old) : s[i + k - 1] = old[k]

\* str.replace(old, new) for a non-empty old: leftmost, non-overlapping
RECURSIVE ReplaceFrom(_, _, _, _)
ReplaceFrom(s, old, new, i) ==
    IF i > Len(s) THEN <<>>
    ELSE IF MatchAt(s, old, i)
         THEN new \o ReplaceFrom(s, old, new, i + Len(old))
         ELSE <<s[i]>> \o ReplaceFrom(s, old, new, i + 1)

Replace(s, old, new) == ReplaceFrom(s, old, new, 1)

\* str.strip(): drop leading and trailing whitespace
RECURSIVE LStrip(_)
LStrip(s) == IF s # <<>> /\ Head(s) = " " THEN LStrip(Tail(s)) ELSE s

RECURSIVE RStrip(_)
RStrip(s) ==
    IF s # <<>> /\ s[Len(s)] = " " THEN RStrip(SubSeq(s, 1, Len(s) - 1)) ELSE s

Strip(s) == RStrip(LStrip(s))

\* ------------------------------------------------------------------ int()
Digits == {"0", "1", "2", "3", "4", "5", "6", "7", "8", "9"}

DigitVal(c) ==
    CASE c = "0" -> 0 [] c = "1" -> 1 [] c = "2" -> 2 [] c = "3" -> 3
      [] c = "4" -> 4 [] c = "5" -> 5 [] c = "6" -> 6 [] c = "7" -> 7
      [] c = "8" -> 8 [] c = "9" -> 9

RECURSIVE DecVal(_)
DecVal(s) == IF s = <<>> THEN 0
             ELSE 10 * DecVal(SubSeq(s, 1, Len(s) - 1)) + DigitVal(s[Len(s)])

AllDigits(s) == s # <<>> /\ \A k \in 1..Len(s) : s[k] \in Digits

\* int(text) raises ValueError unless text is an optional sign and digits
IntParses(s) ==
    IF s # <<>> /\ Head(s) = "-" THEN AllDigits(Tail(s)) ELSE AllDigits(s)

IntValue(s) == IF Head(s) = "-" THEN 0 - DecVal(Tail(s)) ELSE DecVal(s)

Min(a, b) == IF a < b THEN a ELSE b
Max(a, b) == IF a > b THEN a ELSE b

LowerCap == 1
UpperCap == 500
DefaultCount == 10

\* the lower clamp at 0 instead of 1
ClampFromZero(n) == Min(Max(0, n), UpperCap)

\* line 178
Clamp(n) == Min(Max(LowerCap, n), UpperCap)

\* lines 176-181
ParseCount(s) == IF IntParses(s) THEN Clamp(IntValue(s)) ELSE DefaultCount

\* ------------------------------------------------------------ directories
Underscore(s) == Replace(s, <<" ">>, <<"_">>)

\* the directory with the spaces dropped instead of replaced
DownloadDirDropSpaces(term) == <<"cwd", "downloads", Replace(term, <<" ">>, <<>>)>>

\* line 102: Path.cwd() / "downloads" / search_term.replace(" ", "_")
DownloadDir(term) == <<"cwd", "downloads", Underscore(term)>>

\* ------------------------------------------------------------- filesystem
Exists(f, p) == p \in DOMAIN f

\* open(p, 'wb') / open(p, 'w') followed by writes: create or replace
WriteFile(f, p, c) == [q \in (DOMAIN f) \cup {p} |-> IF q = p THEN c ELSE f[q]]

\* os.remove(p)
RemoveFile(f, p) == [q \in (DOMAIN f) \ {p} |-> f[q]]

\* lines 95-96: if os.path.exists(filepath): os.remove(filepath)
RemoveIfExists(f, p) == IF Exists(f, p) THEN RemoveFile(f, p) ELSE f

DataFile(url, n) == [kind |-> "data", url |-> url, size |-> n, lines |-> <<>>]
ReportFile(ls) == [kind |-> "report", url |-> None, size |-> 0, lines |-> ls]

\* os.path.getsize
GetSize(f, p) == f[p].size

\* ------------------------------------------------------------- candidates
FilePrefix == <<"F", "i", "l", "e", ":">>
TitleAB == <<"F", "i", "l", "e", ":", "A", " ", "B">>
TitleA_B == <<"F", "i", "l", "e", ":", "A", "_", "B">>
TitleReport == <<"F", "i", "l", "e", ":", "d", "o", "w", "n", "l", "o", "a", "d", "_", "r", "e", "p", "o", "r", "t", ".", "m", "d">>
ReportName == <<"d", "o", "w", "n", "l", "o", "a", "d", "_", "r", "e", "p", "o", "r", "t", ".", "m", "d">>

\* title "File:" alone: empty once the prefix is stripped
NoTitle == [title |-> FilePrefix, imageinfo |-> <<[url |-> "u1"]>>]
\* an imageinfo entry without a url
NoUrl == [title |-> TitleAB, imageinfo |-> <<[url |-> None]>>]
\* an empty imageinfo list: indexing it raises IndexError
Malformed == [title |-> TitleAB, imageinfo |-> <<>>]
CandAB == [title |-> TitleAB, imageinfo |-> <<[url |-> "u1"]>>]
CandA_B == [title |-> TitleA_B, imageinfo |-> <<[url |-> "u2"]>>]
CandReport == [title |-> TitleReport, imageinfo |-> <<[url |-> "u3"]>>]

Candidates == {NoTitle, NoUrl, Malformed, CandAB, CandA_B, CandReport}

\* sizes of a response body, in bytes
BodySizes == {0, 262144, 1572864}

RunTerms == {<<"a", " ", "b">>, <<"a", "_", "b">>, <<"b">>}

\* line 119
Title(result) == Replace(result.title, FilePrefix, <<>>)

\* line 131
SafeFilename(title) == Replace(title, <<" ">>, <<"_">>)

\* line 132
FilePath(dir, name) == Append(dir, name)

\* line 159
ReportPath(dir) == Append(dir, ReportName)

\* line 147: f"{file_size/1024/1024:.1f} MB", as <<whole, tenth>> of a MB
MB == 1048576
Tenths(n) ==
    LET q == (10 * n) \div MB
        r == (10 * n) % MB
    IN  IF 2 * r > MB THEN q + 1
        ELSE IF 2 * r = MB THEN (IF q % 2 = 0 THEN q ELSE q + 1)
        ELSE q
FormatSize(n) == <<Tenths(n) \div 10, ".", Tenths(n) % 10, " MB">>

\* lines 144-148
Record(name, url, n) == [filename |-> name, url |-> url, size |-> FormatSize(n)]

\* lines 163-165: the lines written for one record
Section(info) ==
    << <<"## ", info.filename>>,
       <<"- Source: ", info.url>>,
       <<"- Size: ", info.size>>,
       <<"">> >>

RECURSIVE Sections(_)
Sections(recs) ==
    IF recs = <<>> THEN <<>> ELSE Section(Head(recs)) \o Sections(Tail(recs))

\* the report without the section of the last record
RenderDropsLast(recs) ==
    << <<"# Downloaded Images Report">>, <<"">> >>
        \o Sections(SubSeq(recs, 1, Len(recs) - 1))

\* lines 161-165
Render(recs) == << <<"# Downloaded Images Report">>, <<"">> >> \o Sections(recs)

\* ------------------------------------------------------------------- main
\* lines 171-174: read the term; an empty one ends the program
MainReadTerm ==
    /\ pc = "main"
    /\ \E raw \in SeqsUpTo(TermChars, MaxTermLen) :
          /\ search_term' = Strip(raw)
          /\ pc' = IF Strip(raw) = <<>> THEN "exit" ELSE "count"
    /\ UNCHANGED <<count_input, max_images, download_dir, results, idx,
                   downloaded, filepath, dl_ok, outcome, slept, fs, dirs,
                   report_written, ret, run, prev_term, other_term, other_dir>>

\* lines 176-181: read the count, parse and clamp it
MainReadCount ==
    /\ pc = "count"
    /\ \E text \in SeqsUpTo(InputChars, MaxInputLen) :
          /\ count_input' = text
          /\ max_images' = ParseCount(text)
    /\ pc' = "call"
    /\ UNCHANGED <<search_term, download_dir, results, idx,
                   downloaded, filepath, dl_ok, outcome, slept, fs, dirs,
                   report_written, ret, run, prev_term, other_term, other_dir>>

\* line 184: process_images(search_term, max_images) is invoked
MainCall ==
    /\ pc = "call"
    /\ pc' = "invoked"
    /\ UNCHANGED <<search_term, count_input, max_images, download_dir, results,
                   idx, downloaded, filepath, dl_ok, outcome, slept, fs, dirs,
                   report_written, ret, run, prev_term, other_term, other_dir>>

\* ------------------------------------------------- directory derivation
\* line 102 applied to two search terms
DeriveDirs ==
    /\ pc = "dir"
    /\ download_dir' = DownloadDir(search_term)
    /\ other_dir' = DownloadDir(other_term)
    /\ dirs' = {DownloadDir(search_term), DownloadDir(other_term)}
    /\ pc' = "dirs"
    /\ UNCHANGED <<search_term, count_input, max_images, results, idx,
                   downloaded, filepath, dl_ok, outcome, slept, fs,
                   report_written, ret, run, prev_term, other_term>>

\* --------------------------------------------------------- process_images
\* lines 99-113: derive and create the directory, search, start the loop;
\* the search returns at most maxLen results
Call(maxLen) ==
    /\ \E term \in RunTerms, cap \in 1..MaxImages,
          found \in SeqsUpTo(Candidates, maxLen) :
          /\ search_term' = term
          /\ max_images' = cap
          /\ download_dir' = DownloadDir(term)
          /\ dirs' = dirs \cup {DownloadDir(term)}
          /\ results' = found
          /\ IF found = <<>>
             THEN pc' = "done" /\ ret' = 0
             ELSE pc' = "loop" /\ ret' = None
    /\ prev_term' = search_term
    /\ run' = run + 1
    /\ idx' = 1
    /\ downloaded' = <<>>
    /\ filepath' = None
    /\ dl_ok' = FALSE
    /\ outcome' = None
    /\ slept' = FALSE
    /\ report_written' = FALSE
    /\ UNCHANGED <<count_input, fs, other_term, other_dir>>

\* process_images called on an empty downloads tree
ProcessImages == pc = "idle" /\ Call(MaxResults)

\* process_images called once, and once more when that call has returned
ProcessImagesFirst == pc = "idle" /\ Call(MaxResultsTwice)
ProcessImagesAgain == pc = "done" /\ run = 1 /\ Call(MaxResultsTwice)

\* the cap tested with > instead of >=
LoopDoneOffByOne == idx > Len(results) \/ Len(downloaded) > max_images

\* line 115, and the for loop running out of results
LoopDone == idx > Len(results) \/ Len(downloaded) >= max_images

\* lines 114-116: leave the loop
LoopExit ==
    /\ pc = "loop"
    /\ LoopDone
    /\ pc' = "report"
    /\ UNCHANGED <<search_term, count_input, max_images, download_dir, results,
                   idx, downloaded, filepath, dl_ok, outcome, slept, fs, dirs,
                   report_written, ret, run, prev_term, other_term, other_dir>>

\* line 124: result.get('imageinfo', [{}])[0] raises on an empty list
InfoRaises(result) == result.imageinfo = <<>>

\* line 125: not image_info or 'url' not in image_info
NoUrlIn(result) == result.imageinfo[1].url = None

\* what the loop does after a candidate that ends in `continue`
\* (lines 121, 126, 142, 153): next candidate, the sleep on line 155 skipped
Continue(o) ==
    /\ outcome' = o
    /\ slept' = FALSE
    /\ idx' = idx + 1
    /\ pc' = "loop"

\* what the loop does after a candidate that falls through to line 155
FallThrough(o) ==
    /\ outcome' = o
    /\ slept' = TRUE
    /\ idx' = idx + 1
    /\ pc' = "loop"

\* lines 119-126: a candidate without a title or without a url is skipped
Skip ==
    /\ pc = "loop"
    /\ ~LoopDone
    /\ \/ Title(results[idx]) = <<>>
       \/ /\ Title(results[idx]) # <<>>
          /\ ~InfoRaises(results[idx])
          /\ NoUrlIn(results[idx])
    /\ Continue("Skipped")
    /\ UNCHANGED <<search_term, count_input, max_images, download_dir, results,
                   downloaded, filepath, dl_ok, fs, dirs,
                   report_written, ret, run, prev_term, other_term, other_dir>>

\* an exception that escapes the loop instead of being caught in it
CandidateRaisesAborts ==
    /\ pc = "loop"
    /\ ~LoopDone
    /\ Title(results[idx]) # <<>>
    /\ InfoRaises(results[idx])
    /\ outcome' = "Exception"
    /\ slept' = FALSE
    /\ pc' = "report"
    /\ UNCHANGED <<search_term, count_input, max_images, download_dir, results,
                   idx, downloaded, filepath, dl_ok, fs, dirs,
                   report_written, ret, run, prev_term, other_term, other_dir>>

\* lines 151-153: an exception raised while examining the candidate
CandidateRaises ==
    /\ pc = "loop"
    /\ ~LoopDone
    /\ Title(results[idx]) # <<>>
    /\ InfoRaises(results[idx])
    /\ Continue("Exception")
    /\ UNCHANGED <<search_term, count_input, max_images, download_dir, results,
                   downloaded, filepath, dl_ok, fs, dirs,
                   report_written, ret, run, prev_term, other_term, other_dir>>

\* lines 128-137: a candidate with a title and a url: download_file is called
StartDownload ==
    /\ pc = "loop"
    /\ ~LoopDone
    /\ Title(results[idx]) # <<>>
    /\ ~InfoRaises(results[idx])
    /\ ~NoUrlIn(results[idx])
    /\ filepath' = FilePath(download_dir, SafeFilename(Title(results[idx])))
    /\ pc' = "download"
    /\ UNCHANGED <<search_term, count_input, max_images, download_dir, results,
                   idx, downloaded, dl_ok, outcome, slept, fs, dirs,
                   report_written, ret, run, prev_term, other_term, other_dir>>

Url == results[idx].imageinfo[1].url

\* ---------------------------------------------------------- download_file
\* an except branch that leaves the partial file behind
CleanupMissing(f, p) == f

\* lines 93-97: the except branch: drop what is at filepath, return False
Cleanup(f, p) == RemoveIfExists(f, p)

\* lines 72-76, 93-97: requests.get / raise_for_status / int() raise before
\* the file is opened
DownloadTransportError ==
    /\ pc = "download"
    /\ fs' = Cleanup(fs, filepath)
    /\ dl_ok' = FALSE
    /\ pc' = "check"
    /\ UNCHANGED <<search_term, count_input, max_images, download_dir, results,
                   idx, downloaded, filepath, outcome, slept, dirs,
                   report_written, ret, run, prev_term, other_term, other_dir>>

\* lines 80-84, 93-97: the file is opened, part of the body is written, then
\* iter_content or write raises
DownloadInterrupted ==
    /\ pc = "download"
    /\ \E n \in BodySizes :
          fs' = Cleanup(WriteFile(fs, filepath, DataFile(Url, n)), filepath)
    /\ dl_ok' = FALSE
    /\ pc' = "check"
    /\ UNCHANGED <<search_term, count_input, max_images, download_dir, results,
                   idx, downloaded, filepath, outcome, slept, dirs,
                   report_written, ret, run, prev_term, other_term, other_dir>>

\* lines 72-91: the whole body, of n bytes, is written; returns True
DownloadComplete ==
    /\ pc = "download"
    /\ \E n \in BodySizes : fs' = WriteFile(fs, filepath, DataFile(Url, n))
    /\ dl_ok' = TRUE
    /\ pc' = "check"
    /\ UNCHANGED <<search_term, count_input, max_images, download_dir, results,
                   idx, downloaded, filepath, outcome, slept, dirs,
                   report_written, ret, run, prev_term, other_term, other_dir>>

\* --------------------------------------- process_images, after the download
\* line 137 false, then line 155
DownloadFailed ==
    /\ pc = "check"
    /\ ~dl_ok
    /\ FallThrough("Failed")
    /\ UNCHANGED <<search_term, count_input, max_images, download_dir, results,
                   downloaded, filepath, dl_ok, fs, dirs,
                   report_written, ret, run, prev_term, other_term, other_dir>>

\* the zero-byte file dropped from the records but left on disk
EmptyDiscardedKeepsFile ==
    /\ pc = "check"
    /\ dl_ok
    /\ GetSize(fs, filepath) = 0
    /\ Continue("EmptyDiscarded")
    /\ UNCHANGED <<search_term, count_input, max_images, download_dir, results,
                   downloaded, filepath, dl_ok, fs, dirs,
                   report_written, ret, run, prev_term, other_term, other_dir>>

\* lines 138-142: a zero-byte file is removed and the candidate dropped
EmptyDiscarded ==
    /\ pc = "check"
    /\ dl_ok
    /\ GetSize(fs, filepath) = 0
    /\ fs' = RemoveFile(fs, filepath)
    /\ Continue("EmptyDiscarded")
    /\ UNCHANGED <<search_term, count_input, max_images, download_dir, results,
                   downloaded, filepath, dl_ok, dirs,
                   report_written, ret, run, prev_term, other_term, other_dir>>

\* lines 138-149, 155: a non-empty file gets its DownloadRecord
Recorded ==
    /\ pc = "check"
    /\ dl_ok
    /\ GetSize(fs, filepath) # 0
    /\ downloaded' = Append(downloaded,
                            Record(SafeFilename(Title(results[idx])), Url,
                                   GetSize(fs, filepath)))
    /\ FallThrough("Recorded")
    /\ UNCHANGED <<search_term, count_input, max_images, download_dir, results,
                   filepath, dl_ok, fs, dirs,
                   report_written, ret, run, prev_term, other_term, other_dir>>

\* line 158
ReportDue(recs) == recs # <<>>

\* the report opened in append mode: 'a' instead of 'w'
WriteReportAppends ==
    /\ pc = "report"
    /\ IF ReportDue(downloaded)
       THEN /\ fs' = WriteFile(fs, ReportPath(download_dir),
                     ReportFile((IF Exists(fs, ReportPath(download_dir))
                                 THEN fs[ReportPath(download_dir)].lines
                                 ELSE <<>>) \o Render(downloaded)))
            /\ report_written' = TRUE
       ELSE UNCHANGED <<fs, report_written>>
    /\ ret' = Len(downloaded)
    /\ pc' = "done"
    /\ UNCHANGED <<search_term, count_input, max_images, download_dir, results,
                   idx, downloaded, filepath, dl_ok, outcome, slept, dirs,
                   run, prev_term, other_term, other_dir>>

\* lines 157-168: write the report when there are records, return the count
WriteReport ==
    /\ pc = "report"
    /\ IF ReportDue(downloaded)
       THEN /\ fs' = WriteFile(fs, ReportPath(download_dir),
                               ReportFile(Render(downloaded)))
            /\ report_written' = TRUE
       ELSE UNCHANGED <<fs, report_written>>
    /\ ret' = Len(downloaded)
    /\ pc' = "done"
    /\ UNCHANGED <<search_term, count_input, max_images, download_dir, results,
                   idx, downloaded, filepath, dl_ok, outcome, slept, dirs,
                   run, prev_term, other_term, other_dir>>

\* --------------------------------------------------------- specifications
Blank ==
    /\ search_term = <<>>
    /\ count_input = <<>>
    /\ max_images = None
    /\ download_dir = None
    /\ results = <<>>
    /\ idx = 1
    /\ downloaded = <<>>
    /\ filepath = None
    /\ dl_ok = FALSE
    /\ outcome = None
    /\ slept = FALSE
    /\ fs = <<>>
    /\ dirs = {}
    /\ report_written = FALSE
    /\ ret = None
    /\ run = 0
    /\ prev_term = None
    /\ other_term = <<>>
    /\ other_dir = None

\* one call of process_images
Init == pc = "idle" /\ Blank

Next ==
    \/ ProcessImages
    \/ LoopExit
    \/ Skip
    \/ CandidateRaises
    \/ StartDownload
    \/ DownloadTransportError
    \/ DownloadInterrupted
    \/ DownloadComplete
    \/ DownloadFailed
    \/ EmptyDiscarded
    \/ Recorded
    \/ WriteReport

Spec == Init /\ [][Next]_vars

\* two calls of process_images, one after the other, on one filesystem
NextTwice ==
    \/ ProcessImagesFirst
    \/ ProcessImagesAgain
    \/ LoopExit
    \/ Skip
    \/ CandidateRaises
    \/ StartDownload
    \/ DownloadTransportError
    \/ DownloadInterrupted
    \/ DownloadComplete
    \/ DownloadFailed
    \/ EmptyDiscarded
    \/ Recorded
    \/ WriteReport

SpecTwice == Init /\ [][NextTwice]_vars

\* main, up to the call of process_images
InitMain == pc = "main" /\ Blank

NextMain == MainReadTerm \/ MainReadCount \/ MainCall

SpecMain == InitMain /\ [][NextMain]_vars

\* the download directories of two search terms
Terms == SeqsUpTo(TermChars, MaxTermLen)

InitDir ==
    /\ pc = "dir"
    /\ search_term \in Terms
    /\ other_term \in Terms
    /\ count_input = <<>>
    /\ max_images = None
    /\ download_dir = None
    /\ results = <<>>
    /\ idx = 1
    /\ downloaded = <<>>
    /\ filepath = None
    /\ dl_ok = FALSE
    /\ outcome = None
    /\ slept = FALSE
    /\ fs = <<>>
    /\ dirs = {}
    /\ report_written = FALSE
    /\ ret = None
    /\ run = 0
    /\ prev_term = None
    /\ other_dir = None

NextDir == DeriveDirs

SpecDir == InitDir /\ [][NextDir]_vars

\* ----------------------------------------------------------------- claims
NameA_B == <<"A", "_", "B">>

\* what is at p is a downloaded file of more than 0 bytes fetched from url
HoldsDownload(p, url) ==
    /\ Exists(fs, p)
    /\ fs[p].kind = "data"
    /\ fs[p].size > 0
    /\ fs[p].url = url

\* what is at p is a report of exactly one section per record of recs, in
\* the order of recs, each with the record's filename, url and size
ReportDescribes(p, recs) ==
    /\ Exists(fs, p)
    /\ fs[p].kind = "report"
    /\ Len(fs[p].lines) = 2 + 4 * Len(recs)
    /\ Cardinality({k \in 1..Len(fs[p].lines) : fs[p].lines[k][1] = "## "})
          = Len(recs)
    /\ \A i \in 1..Len(recs) :
          /\ fs[p].lines[4 * i - 1] = <<"## ", recs[i].filename>>
          /\ fs[p].lines[4 * i] = <<"- Source: ", recs[i].url>>
          /\ fs[p].lines[4 * i + 1] = <<"- Size: ", recs[i].size>>

NoUnderscore(s) == \A k \in 1..Len(s) : s[k] # "_"

\* C1: a DownloadRecord is appended only by the step that follows a
\* download_file call that returned True and left a file of more than 0
\* bytes, and the record names that file; when download_file returned True
\* and the file has 0 bytes, the step deletes the file and appends nothing.
C1_RecordOnlyNonEmptySuccess ==
    [][ /\ (downloaded' # downloaded) =>
              /\ pc = "check"
              /\ dl_ok
              /\ Exists(fs, filepath)
              /\ GetSize(fs, filepath) > 0
              /\ Len(downloaded') = Len(downloaded) + 1
              /\ SubSeq(downloaded', 1, Len(downloaded)) = downloaded
              /\ FilePath(download_dir, downloaded'[Len(downloaded')].filename)
                    = filepath
              /\ downloaded'[Len(downloaded')].url = fs[filepath].url
        /\ (pc = "check" /\ dl_ok /\ GetSize(fs, filepath) = 0) =>
              /\ ~Exists(fs', filepath)
              /\ downloaded' = downloaded
              /\ outcome' = "EmptyDiscarded"
      ]_vars

\* C1 witness: a run that recorded one file and then discarded an empty one
C1_Witness ==
    /\ outcome = "EmptyDiscarded"
    /\ Len(downloaded) = 1
    /\ ~Exists(fs, filepath)
    /\ idx = 3

\* C2: candidates are examined one by one in the order of the results; the
\* loop is left only when the cap is reached or the results are exhausted;
\* a candidate that is skipped, fails, is empty or raises leaves the records
\* as they are and hands over to the next candidate.
C2_FailuresNeitherCountNorAbort ==
    [][ /\ (pc' = "report" /\ pc # "report") =>
              (Len(downloaded') >= max_images' \/ idx' > Len(results'))
        /\ (idx' # idx) => (idx' = idx + 1 /\ pc' = "loop")
        /\ (idx' = idx + 1 /\ outcome' # "Recorded") =>
              /\ outcome' \in {"Skipped", "Failed", "EmptyDiscarded", "Exception"}
              /\ downloaded' = downloaded
      ]_vars

\* C2 witness: the candidate after one that raised was examined and recorded
C2_Witness ==
    /\ pc = "loop"
    /\ idx = 3
    /\ results[1] = Malformed
    /\ outcome = "Recorded"
    /\ Len(downloaded) = 1

\* C3: when download_file has returned False nothing exists at filepath, and
\* the loop then moves to the next candidate.
C3_FailureLeavesNoFile ==
    [][ /\ (pc' = "check" /\ ~dl_ok') => ~Exists(fs', filepath')
        /\ (pc = "check" /\ ~dl_ok) =>
              /\ pc' = "loop"
              /\ idx' = idx + 1
              /\ outcome' = "Failed"
              /\ fs' = fs
      ]_vars

\* C3 witness: a failed download was followed by the next candidate, whose
\* download_file call has returned
C3_Witness ==
    /\ pc = "check"
    /\ idx = 2
    /\ outcome = "Failed"
    /\ ~Exists(fs, FilePath(download_dir, SafeFilename(Title(results[1]))))

\* C4: the records never outnumber the cap nor the search results, and the
\* value returned is the number of records (0 for an empty search).
C4_CountBounds ==
    pc # "idle" =>
        /\ Len(downloaded) <= max_images
        /\ Len(downloaded) <= Len(results)
        /\ pc = "done" => ret = Len(downloaded)
        /\ (pc = "done" /\ results = <<>>) => ret = 0

\* C4 witness: the cap stopped the run before the results were exhausted
C4_Witness ==
    /\ pc = "done"
    /\ ret = max_images
    /\ ret = 2
    /\ idx <= Len(results)

\* C5: every candidate examined is followed by the 1-unit sleep.
C5_SleepAfterEveryCandidate == [][idx' = idx + 1 => slept']_vars

\* C6 as stated: two different search terms give two different directories.
C6_DistinctTermsDistinctDirs ==
    (pc = "dirs" /\ search_term # other_term) => download_dir # other_dir

\* C6: two different search terms without underscores give two different
\* directories.
C6_DistinctDirsWithoutUnderscores ==
    (/\ pc = "dirs"
     /\ search_term # other_term
     /\ NoUnderscore(search_term)
     /\ NoUnderscore(other_term)) => download_dir # other_dir

\* C6 witness: two terms with spaces and no underscore, in two directories
C6_Witness ==
    /\ pc = "dirs"
    /\ search_term = <<"a", " ", "a">>
    /\ other_term = <<"a", "a">>
    /\ download_dir = <<"cwd", "downloads", <<"a", "_", "a">>>>
    /\ other_dir = <<"cwd", "downloads", <<"a", "a">>>>

\* C7: process_images is invoked only for a non-empty term and with a count
\* in 1..500: 1 for an integer input <= 0, 500 for one above 500, the input
\* itself in between, and 10 for an input that is not an integer.
C7_CountClamped ==
    pc \in {"call", "invoked"} =>
        /\ search_term # <<>>
        /\ max_images \in 1..500
        /\ IntParses(count_input) =>
              /\ IntValue(count_input) <= 0 => max_images = 1
              /\ IntValue(count_input) > 500 => max_images = 500
              /\ IntValue(count_input) \in 1..500 =>
                    max_images = IntValue(count_input)
        /\ ~IntParses(count_input) => max_images = 10
        /\ count_input = <<"0">> => max_images = 1
        /\ count_input = <<"-", "5">> => max_images = 1
        /\ count_input = <<"1", "5">> => max_images = 15
        /\ count_input = <<"5", "0", "0">> => max_images = 500
        /\ count_input = <<"5", "0", "1">> => max_images = 500
        /\ count_input \in {<<>>, <<"-">>, <<"x">>, <<"1", "-">>, <<"1", "x">>}
              => max_images = 10

\* C7 witness: an input above 500 reached process_images as 500
C7_Witness ==
    /\ pc = "invoked"
    /\ count_input = <<"5", "0", "1">>
    /\ max_images = 500

\* C8: when process_images returns, it has written the report if and only
\* if it collected a record, and the report it wrote has one section per
\* record, in order, with the record's filename, url and size.
C8_ReportIffRecords ==
    pc = "done" =>
        /\ report_written <=> Len(downloaded) >= 1
        /\ report_written =>
              ReportDescribes(ReportPath(download_dir), downloaded)
        /\ ~report_written => ~Exists(fs, ReportPath(download_dir))

\* C8 witness: 3 results, the second without a url, a cap above 2: 2 records
\* and a report of 2 sections
C8_Witness ==
    /\ pc = "done"
    /\ Len(results) = 3
    /\ results[2] = NoUrl
    /\ max_images = 3
    /\ Len(downloaded) = 2
    /\ report_written
    /\ Len(fs[ReportPath(download_dir)].lines) = 10

C10_RecordedFilesSurvive ==
    pc = "done" =>
        \A i \in 1..Len(downloaded) :
            HoldsDownload(FilePath(download_dir, downloaded[i].filename),
                          downloaded[i].url)

====
